---------------------------- MODULE Spec2Model ----------------------------
(* A model of app.py, the multi-file JSON dashboard: one run of the        *)
(* Streamlit script from the widget values to the elements it renders.     *)
(*                                                                         *)
(* Text is a sequence of one-character strings, so that str.replace and    *)
(* str.strip are computed character by character.  A parsed JSON value is  *)
(* a record [t, v, w]: t is its top-level type, v its items (list), its    *)
(* keys (dict) or its single value (str, scalar), w the values of a dict.  *)
(* A Python dict is a sequence of [name, data] entries with distinct       *)
(* names, in insertion order.                                              *)
EXTENDS Integers, Sequences, FiniteSets, TLC

VARIABLES
    data_files,       \* st.file_uploader("Upload Data (JSON)"): None, or a list of files
    schema_files,     \* st.file_uploader("Upload Schemas (Optional)")
    button,           \* st.button("Generate View") of this run
    user_input,       \* st.text_area(...) of this run
    pc,               \* the statement the script is at
    data_registry,    \* line 89
    schema_registry,  \* line 92
    summary,          \* line 117
    response,         \* what get_local_response returned (line 120)
    chat_error,       \* whether ollama.chat raised, and the message of its exception
    code,             \* line 121
    code2,            \* the sanitizer applied to its own output (SpecSanitize only)
    exec_env,         \* the globals and locals handed to exec (lines 128-129)
    local_vars,       \* the locals mapping after exec
    ui,               \* the elements rendered so far, in order
    steps,            \* the pipeline steps performed so far, in order
    thrown,           \* the exception raised last by a statement of the script
    uncaught          \* whether an exception left the script

vars ==
    <<data_files, schema_files, button, user_input, pc, data_registry,
      schema_registry, summary, response, chat_error, code, code2, exec_env,
      local_vars, ui, steps, thrown, uncaught>>

---------------------------------------------------------------------------
(* Bounds of the model.                                                    *)

MaxDataFiles == 2
MaxSchemaFiles == 1
MaxEntries == 2
MaxChunks == 6

---------------------------------------------------------------------------
(* Literal texts of the source.                                            *)

\* The character U+0060 (grave accent); the other characters are written as
\* one-character strings.
Backtick == "U+0060"
FencePython ==
    <<Backtick, Backtick, Backtick, "p", "y", "t", "h", "o", "n">>
Fence ==
    <<Backtick, Backtick, Backtick>>
ErrorPrefix ==
    <<"E", "r", "r", "o", "r", ":", " ">>
\* str.strip() removes the characters of str.isspace; these are the ASCII
\* ones the inputs of the model use.
Whitespace ==
    {" ", "\n", "\t", "\r"}

---------------------------------------------------------------------------
(* The sanitizer of line 121: remove every FencePython, then every Fence,  *)
(* then trim the whitespace at both ends.                                  *)

Matches(s, old, i) ==
    /\ i + Len(old) - 1 <= Len(s)
    /\ SubSeq(s, i, i + Len(old) - 1) = old

\* str.replace(old, new) for a non-empty old: the non-overlapping
\* occurrences, found from the left.
RECURSIVE ReplaceFrom(_, _, _, _)
ReplaceFrom(s, old, new, i) ==
    IF i > Len(s) THEN <<>>
    ELSE IF Matches(s, old, i)
         THEN new \o ReplaceFrom(s, old, new, i + Len(old))
         ELSE <<s[i]>> \o ReplaceFrom(s, old, new, i + 1)

Replace(s, old, new) ==
    ReplaceFrom(s, old, new, 1)

RECURSIVE LStrip(_)
LStrip(s) ==
    IF s # <<>> /\ Head(s) \in Whitespace THEN LStrip(Tail(s)) ELSE s

RECURSIVE RStrip(_)
RStrip(s) ==
    IF s # <<>> /\ s[Len(s)] \in Whitespace
    THEN RStrip(SubSeq(s, 1, Len(s) - 1))
    ELSE s

Strip(s) ==
    RStrip(LStrip(s))

\* A slip of the sanitizer: the whitespace is trimmed before the fences
\* are removed.
SanitizeStripFirst(s) ==
    Replace(Replace(Strip(s), FencePython, <<>>), Fence, <<>>)

Sanitize(s) ==
    Strip(Replace(Replace(s, FencePython, <<>>), Fence, <<>>))

---------------------------------------------------------------------------
(* Uploaded files and parsed JSON.                                         *)

\* The value of a file_uploader with accept_multiple_files=True: None, or
\* the list of the uploaded files.
NoUpload == [isNone |-> TRUE, files |-> <<>>]
Upload(fs) == [isNone |-> FALSE, files |-> fs]

\* The content of a file that json.load rejects (it raises JSONDecodeError).
Invalid == [t |-> "invalid", v |-> <<>>, w |-> <<>>]
JsonList(items) == [t |-> "list", v |-> items, w |-> <<>>]
JsonDict(keys, vals) == [t |-> "dict", v |-> keys, w |-> vals]
JsonStr(x) == [t |-> "str", v |-> <<x>>, w |-> <<>>]
JsonScalar(x) == [t |-> "scalar", v |-> <<x>>, w |-> <<>>]

Names == {"a.json", "b.json", "c.json"}

\* The file contents of the pipeline runs.
Contents ==
    { Invalid,
      JsonList(<<"r1", "r2">>),
      JsonDict(<<"k1", "k2", "k3">>, <<"1", "2", "3">>),
      JsonScalar("7") }

\* The parsed values the summary is computed for.
JsonValues ==
    { JsonList(<<>>), JsonList(<<"r1">>), JsonList(<<"r1", "r2">>),
      JsonDict(<<>>, <<>>), JsonDict(<<"k1">>, <<"1">>),
      JsonDict(<<"k1", "k2", "k3">>, <<"1", "2", "3">>),
      JsonStr("s"), JsonScalar("7") }

SchemaValues ==
    { JsonDict(<<"type">>, <<"object">>) }

RECURSIVE SeqsUpTo(_, _)
SeqsUpTo(S, n) ==
    IF n = 0 THEN {<<>>}
    ELSE LET shorter == SeqsUpTo(S, n - 1)
         IN  shorter \cup {Append(q, x) : q \in shorter, x \in S}

Files(names, contents) ==
    {[name |-> n, content |-> c] : n \in names, c \in contents}

---------------------------------------------------------------------------
(* A Python dict: its entries in insertion order, the names distinct.      *)

Keys(registry) ==
    {registry[i].name : i \in DOMAIN registry}

Has(registry, name) ==
    name \in Keys(registry)

Get(registry, name) ==
    registry[CHOOSE i \in DOMAIN registry : registry[i].name = name].data

\* A slip of the assignment: a name already present keeps its first value.
PutKeepFirst(registry, name, data) ==
    IF Has(registry, name)
    THEN registry
    ELSE Append(registry, [name |-> name, data |-> data])

\* registry[name] = data: a new name is appended, a known one keeps its
\* place and takes the new value.
Put(registry, name, data) ==
    IF Has(registry, name)
    THEN [i \in DOMAIN registry |->
            IF registry[i].name = name
            THEN [name |-> name, data |-> data]
            ELSE registry[i]]
    ELSE Append(registry, [name |-> name, data |-> data])

Registries(names, values, n) ==
    {r \in SeqsUpTo({[name |-> m, data |-> d] : m \in names, d \in values}, n) :
        \A i, j \in DOMAIN r : r[i].name = r[j].name => i = j}

---------------------------------------------------------------------------
(* load_data_registry (lines 23-29).  The result is the registry returned, *)
(* or the JSONDecodeError json.load raised on the first bad file.          *)

RECURSIVE LoadFrom(_, _, _)
LoadFrom(files, i, registry) ==
    IF i > Len(files)
    THEN [raised |-> FALSE, value |-> registry]
    ELSE IF files[i].content = Invalid
         THEN [raised |-> TRUE, value |-> <<>>]
         ELSE LoadFrom(files, i + 1,
                       Put(registry, files[i].name, files[i].content))

load_data_registry(uploaded_files) ==
    IF ~uploaded_files.isNone /\ uploaded_files.files # <<>>
    THEN LoadFrom(uploaded_files.files, 1, <<>>)
    ELSE [raised |-> FALSE, value |-> <<>>]

---------------------------------------------------------------------------
(* get_data_summary (lines 31-51).  The summary text is kept as its lines: *)
(* "--- DATASET: name ---", "Schema: <json>", "Sample: <json>".            *)

NoJson == [t |-> "none", v |-> <<>>, w |-> <<>>]
Line(tag, name, val) == [tag |-> tag, name |-> name, val |-> val]

Min(a, b) == IF a < b THEN a ELSE b

\* data[:1]
FirstItem(data) ==
    JsonList(SubSeq(data.v, 1, Min(1, Len(data.v))))

\* {k: v for k, v in list(data.items())[:2]}
FirstTwoKeys(data) ==
    JsonDict(SubSeq(data.v, 1, Min(2, Len(data.v))),
             SubSeq(data.w, 1, Min(2, Len(data.w))))

SchemaLines(name, schema_reg) ==
    IF Has(schema_reg, name)
    THEN <<Line("Schema", name, Get(schema_reg, name))>>
    ELSE <<>>

\* A slip of the sample: the length of the list is not looked at.
SampleLinesNoLength(name, data) ==
    IF data.t = "list"
    THEN <<Line("Sample", name, FirstItem(data))>>
    ELSE IF data.t = "dict"
         THEN <<Line("Sample", name, FirstTwoKeys(data))>>
         ELSE <<>>

SampleLines(name, data) ==
    IF data.t = "list" /\ Len(data.v) > 0
    THEN <<Line("Sample", name, FirstItem(data))>>
    ELSE IF data.t = "dict"
         THEN <<Line("Sample", name, FirstTwoKeys(data))>>
         ELSE <<>>

RECURSIVE SummaryFrom(_, _, _)
SummaryFrom(data_reg, schema_reg, i) ==
    IF i > Len(data_reg) THEN <<>>
    ELSE <<Line("DATASET", data_reg[i].name, NoJson)>>
         \o SchemaLines(data_reg[i].name, schema_reg)
         \o SampleLines(data_reg[i].name, data_reg[i].data)
         \o SummaryFrom(data_reg, schema_reg, i + 1)

get_data_summary(data_reg, schema_reg) ==
    SummaryFrom(data_reg, schema_reg, 1)

---------------------------------------------------------------------------
(* exec(code, {}, local_vars) (line 129), for the statements the model's   *)
(* responses are made of.  Every other line of the texts the model feeds   *)
(* to exec (a line with a grave accent, "Error: timed out") is one Python  *)
(* rejects when it compiles the code, before any statement runs.           *)

StmtFigure ==
    <<"f", "i", "g", "=", "g", "o", ".", "F", "i", "g", "u", "r", "e", "(", ")">>
StmtFigInt ==
    <<"f", "i", "g", "=", "1">>
StmtTable ==
    <<"d", "f", "_", "r", "e", "s", "u", "l", "t", "=", "p", "d", ".",
      "D", "a", "t", "a", "F", "r", "a", "m", "e", "(", ")">>
StmtOther ==
    <<"x", "=", "1">>
StmtDivZero ==
    <<"1", "/", "0">>
StmtExit ==
    <<"r", "a", "i", "s", "e", " ", "S", "y", "s", "t", "e", "m", "E", "x", "i", "t">>

\* str(e) of the exceptions: SyntaxError (without its "(<string>, line n)"),
\* ZeroDivisionError, the ValueError of st.plotly_chart for a value that is
\* no figure, the JSONDecodeError of json.load and the TypeError of slicing
\* a number (the last three shortened).
MsgSyntax ==
    <<"i", "n", "v", "a", "l", "i", "d", " ", "s", "y", "n", "t", "a", "x">>
MsgDivZero ==
    <<"d", "i", "v", "i", "s", "i", "o", "n", " ", "b", "y", " ", "z", "e", "r", "o">>
MsgFigure ==
    <<"i", "n", "v", "a", "l", "i", "d", " ", "f", "i", "g", "u", "r", "e">>

MsgJson ==
    <<"E", "x", "p", "e", "c", "t", "i", "n", "g", " ", "v", "a", "l", "u", "e">>
MsgType ==
    <<"n", "o", "t", " ", "s", "u", "b", "s", "c", "r", "i", "p", "t", "a", "b", "l", "e">>

Statements ==
    {<<>>, StmtFigure, StmtFigInt, StmtTable, StmtOther, StmtDivZero, StmtExit}

RECURSIVE SplitLines(_)
SplitLines(s) ==
    IF \E i \in DOMAIN s : s[i] = "\n"
    THEN LET i == CHOOSE k \in DOMAIN s :
                     s[k] = "\n" /\ \A j \in 1..(k - 1) : s[j] # "\n"
         IN  <<SubSeq(s, 1, i - 1)>> \o SplitLines(SubSeq(s, i + 1, Len(s)))
    ELSE <<s>>

Bind(env, k, val) ==
    [x \in DOMAIN env \cup {k} |-> IF x = k THEN val ELSE env[x]]

Completed(env) == [raised |-> "none", msg |-> <<>>, vars |-> env]
Raised(class, msg, env) == [raised |-> class, msg |-> msg, vars |-> env]

RECURSIVE RunFrom(_, _, _)
RunFrom(lines, i, env) ==
    IF i > Len(lines) THEN Completed(env)
    ELSE IF lines[i] = StmtFigure
         THEN RunFrom(lines, i + 1, Bind(env, "fig", "Figure"))
    ELSE IF lines[i] = StmtFigInt
         THEN RunFrom(lines, i + 1, Bind(env, "fig", "int"))
    ELSE IF lines[i] = StmtTable
         THEN RunFrom(lines, i + 1, Bind(env, "df_result", "DataFrame"))
    ELSE IF lines[i] = StmtOther
         THEN RunFrom(lines, i + 1, Bind(env, "x", "int"))
    ELSE IF lines[i] = StmtDivZero
         THEN Raised("ZeroDivisionError", MsgDivZero, env)
    ELSE IF lines[i] = StmtExit
         THEN Raised("SystemExit", <<>>, env)
    ELSE RunFrom(lines, i + 1, env)

PyExec(src, env) ==
    LET lines == SplitLines(src)
    IN  IF \E i \in DOMAIN lines : lines[i] \notin Statements
        THEN Raised("SyntaxError", MsgSyntax, env)
        ELSE RunFrom(lines, 1, env)

---------------------------------------------------------------------------
(* The script (lines 86-142), one statement group per action.  The static  *)
(* elements of lines 9-20 are rendered in every run and are left out.      *)

Element(kind, text) == [kind |-> kind, text |-> text]

NoException == [raised |-> FALSE, class |-> "", msg |-> <<>>, where |-> ""]
Exception(class, msg, where) ==
    [raised |-> TRUE, class |-> class, msg |-> msg, where |-> where]

\* The classes that derive from Exception; SystemExit derives from
\* BaseException only.
ExceptionClasses ==
    {"SyntaxError", "ZeroDivisionError", "ValueError", "TypeError", "JSONDecodeError"}

\* A slip of the handler: a narrower except clause.
CaughtValueErrorOnly(class) ==
    class = "ValueError"

\* except Exception as e   (line 139)
Caught(class) ==
    class \in ExceptionClasses

\* An exception raised outside the try statement leaves the script.
Escape(e) ==
    /\ thrown' = e
    /\ uncaught' = TRUE
    /\ pc' = "crashed"

\* An exception raised inside the try statement (lines 115-140).
Handle(e, shown) ==
    /\ thrown' = e
    /\ IF Caught(e.class)
       THEN /\ ui' = Append(shown, Element("error", ErrorPrefix \o e.msg))
            /\ uncaught' = FALSE
            /\ pc' = "done"
       ELSE /\ ui' = shown
            /\ uncaught' = TRUE
            /\ pc' = "crashed"

Truthy(uploaded_files) ==
    ~uploaded_files.isNone /\ uploaded_files.files # <<>>

\* lines 87, 141-142
NoFiles ==
    /\ pc = "start"
    /\ ~Truthy(data_files)
    /\ ui' = Append(ui, Element("info_upload", <<>>))
    /\ pc' = "done"
    /\ UNCHANGED <<data_files, schema_files, button, user_input, data_registry,
                   schema_registry, summary, response, chat_error, code, code2,
                   exec_env, local_vars, steps, thrown, uncaught>>

\* line 89
LoadData ==
    /\ pc = "start"
    /\ Truthy(data_files)
    /\ LET r == load_data_registry(data_files)
       IN  IF r.raised
           THEN /\ Escape(Exception("JSONDecodeError", MsgJson, "load_data"))
                /\ UNCHANGED data_registry
           ELSE /\ data_registry' = r.value
                /\ pc' = "load_schema"
                /\ UNCHANGED <<thrown, uncaught>>
    /\ UNCHANGED <<data_files, schema_files, button, user_input,
                   schema_registry, summary, response, chat_error, code, code2,
                   exec_env, local_vars, ui, steps>>

\* line 92
LoadSchema ==
    /\ pc = "load_schema"
    /\ LET r == load_data_registry(schema_files)
       IN  IF r.raised
           THEN /\ Escape(Exception("JSONDecodeError", MsgJson, "load_schema"))
                /\ UNCHANGED schema_registry
           ELSE /\ schema_registry' = r.value
                /\ pc' = "preview"
                /\ UNCHANGED <<thrown, uncaught>>
    /\ UNCHANGED <<data_files, schema_files, button, user_input,
                   data_registry, summary, response, chat_error, code, code2,
                   exec_env, local_vars, ui, steps>>

\* data if isinstance(data, dict) else data[:1]   (line 104): a list and a
\* string can be sliced, a number, a boolean and null cannot.
Sliceable(data) ==
    data.t \in {"dict", "list", "str"}

\* The tabs st.json fills before the first value that cannot be sliced.
RECURSIVE TabsFrom(_, _)
TabsFrom(registry, i) ==
    IF i > Len(registry) \/ ~Sliceable(registry[i].data) THEN <<>>
    ELSE <<Element("tab", <<>>)>> \o TabsFrom(registry, i + 1)

\* lines 95-104
Preview ==
    /\ pc = "preview"
    /\ ui' = ui \o <<Element("subheader", <<>>)>>
                \o (IF data_registry # <<>> THEN TabsFrom(data_registry, 1) ELSE <<>>)
    /\ IF \E i \in DOMAIN data_registry : ~Sliceable(data_registry[i].data)
       THEN Escape(Exception("TypeError", MsgType, "preview"))
       ELSE /\ pc' = "input"
            /\ UNCHANGED <<thrown, uncaught>>
    /\ UNCHANGED <<data_files, schema_files, button, user_input, data_registry,
                   schema_registry, summary, response, chat_error, code, code2,
                   exec_env, local_vars, steps>>

\* lines 107-114
Input ==
    /\ pc = "input"
    /\ steps' = Append(steps, "collect")
    /\ IF ~button
       THEN /\ pc' = "done"
            /\ UNCHANGED ui
       ELSE IF user_input = <<>>
            THEN /\ ui' = Append(ui, Element("warning_request", <<>>))
                 /\ pc' = "done"
            ELSE /\ pc' = "summary"
                 /\ UNCHANGED ui
    /\ UNCHANGED <<data_files, schema_files, button, user_input, data_registry,
                   schema_registry, summary, response, chat_error, code, code2,
                   exec_env, local_vars, thrown, uncaught>>

\* line 117
BuildSummary ==
    /\ pc = "summary"
    /\ summary' = get_data_summary(data_registry, schema_registry)
    /\ steps' = Append(steps, "summary")
    /\ pc' = "model"
    /\ UNCHANGED <<data_files, schema_files, button, user_input, data_registry,
                   schema_registry, response, chat_error, code, code2,
                   exec_env, local_vars, ui, thrown, uncaught>>

---------------------------------------------------------------------------
(* The model call.  ollama.chat returns a text or raises; what it returns  *)
(* is drawn from Responses, what it raises from ChatErrors.                *)

NL == <<"\n">>

Responses ==
    { FencePython \o NL \o StmtFigure \o NL \o Fence,
      Fence \o NL \o StmtTable \o NL \o Fence \o NL,
      StmtTable \o NL \o StmtFigure,
      StmtOther,
      StmtFigInt,
      StmtFigure \o NL \o StmtDivZero,
      StmtExit }

MsgTimedOut ==
    <<"t", "i", "m", "e", "d", " ", "o", "u", "t">>
MsgRefused ==
    <<"r", "e", "f", "u", "s", "e", "d">>

ChatErrors ==
    {MsgTimedOut, MsgRefused}

ChatOutcomes ==
    {[raised |-> FALSE, text |-> r] : r \in Responses}
        \cup {[raised |-> TRUE, text |-> m] : m \in ChatErrors}

\* lines 77-84: the content of the reply, or "Error: " and the message of
\* the exception the call raised.
get_local_response(chat) ==
    IF chat.raised THEN ErrorPrefix \o chat.text ELSE chat.text

\* line 120
CallModel ==
    /\ pc = "model"
    /\ \E chat \in ChatOutcomes :
          /\ response' = get_local_response(chat)
          /\ chat_error' = [raised |-> chat.raised,
                            msg |-> IF chat.raised THEN chat.text ELSE <<>>]
    /\ steps' = Append(steps, "model")
    /\ pc' = "sanitize"
    /\ UNCHANGED <<data_files, schema_files, button, user_input, data_registry,
                   schema_registry, summary, code, code2, exec_env, local_vars,
                   ui, thrown, uncaught>>

\* A slip of line 121: the response is executed as it came.
SanitizeStepSkipped ==
    /\ pc = "sanitize"
    /\ code' = response
    /\ steps' = Append(steps, "sanitize")
    /\ pc' = "show_code"
    /\ UNCHANGED <<data_files, schema_files, button, user_input, data_registry,
                   schema_registry, summary, response, chat_error, code2,
                   exec_env, local_vars, ui, thrown, uncaught>>

\* line 121
SanitizeStep ==
    /\ pc = "sanitize"
    /\ code' = Sanitize(response)
    /\ steps' = Append(steps, "sanitize")
    /\ pc' = "show_code"
    /\ UNCHANGED <<data_files, schema_files, button, user_input, data_registry,
                   schema_registry, summary, response, chat_error, code2,
                   exec_env, local_vars, ui, thrown, uncaught>>

\* lines 123-124
ShowCode ==
    /\ pc = "show_code"
    /\ ui' = Append(ui, Element("code", code))
    /\ pc' = "exec"
    /\ UNCHANGED <<data_files, schema_files, button, user_input, data_registry,
                   schema_registry, summary, response, chat_error, code, code2,
                   exec_env, local_vars, steps, thrown, uncaught>>

\* A slip of line 128: the schema registry is injected too.
ExecLocalsWithSchemas ==
    [datasets |-> data_registry, schemas |-> schema_registry,
     pd |-> "pd", px |-> "px", go |-> "go"]

\* line 128
ExecLocals ==
    [datasets |-> data_registry, pd |-> "pd", px |-> "px", go |-> "go"]

\* line 129: exec(code, {}, local_vars)
Execute ==
    /\ pc = "exec"
    /\ exec_env' = [called |-> TRUE, src |-> code, globals |-> {},
                    locals |-> ExecLocals]
    /\ steps' = Append(steps, "execute")
    /\ LET r == PyExec(code, ExecLocals)
       IN  /\ local_vars' = r.vars
           /\ IF r.raised = "none"
              THEN /\ pc' = "render"
                   /\ UNCHANGED <<ui, thrown, uncaught>>
              ELSE Handle(Exception(r.raised, r.msg, "exec"), ui)
    /\ UNCHANGED <<data_files, schema_files, button, user_input, data_registry,
                   schema_registry, summary, response, chat_error, code, code2>>

\* A slip of lines 132-134: the table is looked for first.
SelectResultTableFirst(lv) ==
    IF "df_result" \in DOMAIN lv THEN "table"
    ELSE IF "fig" \in DOMAIN lv THEN "chart"
    ELSE "warning_noresult"

\* lines 132-137
SelectResult(lv) ==
    IF "fig" \in DOMAIN lv THEN "chart"
    ELSE IF "df_result" \in DOMAIN lv THEN "table"
    ELSE "warning_noresult"

\* st.plotly_chart raises ValueError for a value that is no figure.
RenderRaises(kind, lv) ==
    kind = "chart" /\ lv["fig"] # "Figure"

\* lines 132-137
Render ==
    /\ pc = "render"
    /\ steps' = Append(steps, "render")
    /\ LET kind == SelectResult(local_vars)
       IN  IF RenderRaises(kind, local_vars)
           THEN Handle(Exception("ValueError", MsgFigure, "render"), ui)
           ELSE /\ ui' = Append(ui, Element(kind, <<>>))
                /\ pc' = "done"
                /\ UNCHANGED <<thrown, uncaught>>
    /\ UNCHANGED <<data_files, schema_files, button, user_input, data_registry,
                   schema_registry, summary, response, chat_error, code, code2,
                   exec_env, local_vars>>

---------------------------------------------------------------------------
(* One run of the script: the widget values are the inputs.                *)

DataNames == {"a.json", "b.json"}
SchemaNames == {"a.json", "c.json"}

Uploads(names, contents, n) ==
    {NoUpload} \cup {Upload(fs) : fs \in SeqsUpTo(Files(names, contents), n)}

Blank ==
    /\ data_registry = <<>>
    /\ schema_registry = <<>>
    /\ summary = <<>>
    /\ response = <<>>
    /\ chat_error = [raised |-> FALSE, msg |-> <<>>]
    /\ code = <<>>
    /\ code2 = <<>>
    /\ exec_env = [called |-> FALSE, src |-> <<>>, globals |-> {}, locals |-> <<>>]
    /\ local_vars = <<>>
    /\ ui = <<>>
    /\ steps = <<>>
    /\ thrown = NoException
    /\ uncaught = FALSE

Init ==
    /\ data_files \in Uploads(DataNames, Contents, MaxDataFiles)
    /\ schema_files \in
          Uploads(SchemaNames, {Invalid} \cup SchemaValues, MaxSchemaFiles)
    /\ button \in BOOLEAN
    /\ user_input \in {<<>>, <<"q">>}
    /\ pc = "start"
    /\ Blank

Next ==
    \/ NoFiles
    \/ LoadData
    \/ LoadSchema
    \/ Preview
    \/ Input
    \/ BuildSummary
    \/ CallModel
    \/ SanitizeStep
    \/ ShowCode
    \/ Execute
    \/ Render

Spec == Init /\ [][Next]_vars

---------------------------------------------------------------------------
(* The sanitizer on its own: a response text, sanitized, and the result    *)
(* sanitized again.                                                        *)

Chunks ==
    {<<Backtick>>, FencePython, <<"p", "y", "t", "h", "o", "n">>, <<" ">>, <<"x">>}

RECURSIVE Flatten(_)
Flatten(chunks) ==
    IF chunks = <<>> THEN <<>> ELSE Head(chunks) \o Flatten(Tail(chunks))

Texts ==
    {Flatten(q) : q \in SeqsUpTo(Chunks, MaxChunks)}

IdleRun ==
    /\ data_files = NoUpload
    /\ schema_files = NoUpload
    /\ button = FALSE
    /\ user_input = <<>>

InitSanitize ==
    /\ IdleRun
    /\ pc = "fn_sanitize"
    /\ data_registry = <<>>
    /\ schema_registry = <<>>
    /\ summary = <<>>
    /\ response \in Texts
    /\ chat_error = [raised |-> FALSE, msg |-> <<>>]
    /\ code = <<>>
    /\ code2 = <<>>
    /\ exec_env = [called |-> FALSE, src |-> <<>>, globals |-> {}, locals |-> <<>>]
    /\ local_vars = <<>>
    /\ ui = <<>>
    /\ steps = <<>>
    /\ thrown = NoException
    /\ uncaught = FALSE

SanitizeOnce ==
    /\ pc = "fn_sanitize"
    /\ code' = Sanitize(response)
    /\ pc' = "fn_again"
    /\ UNCHANGED <<data_files, schema_files, button, user_input, data_registry,
                   schema_registry, summary, response, chat_error, code2,
                   exec_env, local_vars, ui, steps, thrown, uncaught>>

SanitizeAgain ==
    /\ pc = "fn_again"
    /\ code2' = Sanitize(code)
    /\ pc' = "fn_done"
    /\ UNCHANGED <<data_files, schema_files, button, user_input, data_registry,
                   schema_registry, summary, response, chat_error, code,
                   exec_env, local_vars, ui, steps, thrown, uncaught>>

NextSanitize ==
    \/ SanitizeOnce
    \/ SanitizeAgain

SpecSanitize == InitSanitize /\ [][NextSanitize]_vars

---------------------------------------------------------------------------
(* load_data_registry on its own.                                          *)

InitRegistry ==
    /\ data_files \in Uploads(DataNames, Contents, MaxDataFiles)
    /\ schema_files = NoUpload
    /\ button = FALSE
    /\ user_input = <<>>
    /\ pc = "fn_load"
    /\ Blank

LoadReturns ==
    /\ pc = "fn_load"
    /\ ~load_data_registry(data_files).raised
    /\ data_registry' = load_data_registry(data_files).value
    /\ pc' = "fn_done"
    /\ UNCHANGED <<data_files, schema_files, button, user_input,
                   schema_registry, summary, response, chat_error, code, code2,
                   exec_env, local_vars, ui, steps, thrown, uncaught>>

LoadRaises ==
    /\ pc = "fn_load"
    /\ load_data_registry(data_files).raised
    /\ Escape(Exception("JSONDecodeError", MsgJson, "load_data"))
    /\ UNCHANGED <<data_files, schema_files, button, user_input, data_registry,
                   schema_registry, summary, response, chat_error, code, code2,
                   exec_env, local_vars, ui, steps>>

NextRegistry ==
    \/ LoadReturns
    \/ LoadRaises

SpecRegistry == InitRegistry /\ [][NextRegistry]_vars

---------------------------------------------------------------------------
(* get_data_summary on its own, for every pair of registries.              *)

InitSummary ==
    /\ IdleRun
    /\ pc = "fn_summary"
    /\ data_registry \in Registries(Names, JsonValues, MaxEntries)
    /\ schema_registry \in Registries(Names, SchemaValues, MaxEntries)
    /\ summary = <<>>
    /\ response = <<>>
    /\ chat_error = [raised |-> FALSE, msg |-> <<>>]
    /\ code = <<>>
    /\ code2 = <<>>
    /\ exec_env = [called |-> FALSE, src |-> <<>>, globals |-> {}, locals |-> <<>>]
    /\ local_vars = <<>>
    /\ ui = <<>>
    /\ steps = <<>>
    /\ thrown = NoException
    /\ uncaught = FALSE

Summarize ==
    /\ pc = "fn_summary"
    /\ summary' = get_data_summary(data_registry, schema_registry)
    /\ pc' = "fn_done"
    /\ UNCHANGED <<data_files, schema_files, button, user_input, data_registry,
                   schema_registry, response, chat_error, code, code2,
                   exec_env, local_vars, ui, steps, thrown, uncaught>>

NextSummary == Summarize

SpecSummary == InitSummary /\ [][NextSummary]_vars

---------------------------------------------------------------------------
(* What the claims are stated with.                                        *)

Results == {"chart", "table", "warning_noresult"}

Shown(kind) ==
    \E i \in DOMAIN ui : ui[i].kind = kind

ResultsShown ==
    {i \in DOMAIN ui : ui[i].kind \in Results}

Finished ==
    pc \in {"done", "crashed"}

InSteps(step) ==
    \E i \in DOMAIN steps : steps[i] = step

\* exec was called and returned without raising.
ExecCompleted ==
    /\ exec_env.called
    /\ ~(thrown.raised /\ thrown.where = "exec")
    /\ pc # "exec"

Defined(name) ==
    name \in DOMAIN local_vars

\* The error display of line 140 for an exception with this message.
ErrorShownFor(msg) ==
    /\ ui # <<>>
    /\ ui[Len(ui)] = Element("error", ErrorPrefix \o msg)
    /\ Cardinality({i \in DOMAIN ui : ui[i].kind = "error"}) = 1

Contains(text, part) ==
    \E i \in 1..(Len(text) + 1) : Matches(text, part, i)

---------------------------------------------------------------------------
---------------------------------------------------------------------------
InTry(e) ==
    e.raised /\ e.where \in {"summary", "exec", "render"}

CaughtAndShown(e) ==
    /\ pc = "done"
    /\ ~uncaught
    /\ ErrorShownFor(e.msg)
    /\ ResultsShown = {}

\* C2 as stated: any exception raised while the summary is built, the code
\* is executed or the result is rendered ends the run in the error display
\* with its message, with no result rendered and nothing propagating.
C2_AnyExceptionCaught ==
    InTry(thrown) => CaughtAndShown(thrown)

\* C2 amended: the same, for the exceptions whose class derives from
\* Exception (SystemExit and the like leave the handler).
C2_ExceptionSubclassCaught ==
    (InTry(thrown) /\ thrown.class \in ExceptionClasses) => CaughtAndShown(thrown)

\* The generated code raised after it had bound fig; the error is shown.
C2_Witness ==
    /\ thrown.raised
    /\ thrown.where = "exec"
    /\ thrown.class = "ZeroDivisionError"
    /\ Defined("fig")
    /\ ErrorShownFor(MsgDivZero)

---------------------------------------------------------------------------
\* C3: when ollama.chat raised, the run ends with an error display that
\* carries the message of that exception, and no result is rendered.
C3_ChatErrorShown ==
    (chat_error.raised /\ Finished) =>
        /\ \E i \in DOMAIN ui :
              ui[i].kind = "error" /\ Contains(ui[i].text, chat_error.msg)
        /\ ResultsShown = {}

---------------------------------------------------------------------------
\* C4: a data or schema file that cannot be parsed, or whose top-level
\* value cannot be sliced, ends the run in the error display with the
\* exception's message, and no exception leaves the script.
C4_InputErrorCaught ==
    (thrown.raised /\ thrown.where \in {"load_data", "load_schema", "preview"}) =>
        /\ ErrorShownFor(thrown.msg)
        /\ ~uncaught

---------------------------------------------------------------------------
PipelineOrder ==
    <<"collect", "summary", "model", "sanitize", "execute", "render">>

\* C5: the steps of a run are a prefix of collect, summary, model, sanitize,
\* execute, render; once the model was called the summary is the one of the
\* loaded registries; the code handed to exec is the sanitized response;
\* and a result is rendered only after exec returned without raising.
C5_PipelineOrder ==
    /\ Len(steps) <= Len(PipelineOrder)
    /\ steps = SubSeq(PipelineOrder, 1, Len(steps))
    /\ InSteps("model") =>
          /\ Truthy(data_files)
          /\ load_data_registry(data_files).value = data_registry
          /\ load_data_registry(schema_files).value = schema_registry
          /\ summary = get_data_summary(data_registry, schema_registry)
    /\ exec_env.called => exec_env.src = Sanitize(response)
    /\ ResultsShown # {} => (InSteps("execute") /\ ExecCompleted)

\* A fenced response went through the six steps and its chart is rendered.
C5_Witness ==
    /\ pc = "done"
    /\ steps = PipelineOrder
    /\ Contains(response, Fence)
    /\ exec_env.src = StmtFigure
    /\ Shown("chart")

---------------------------------------------------------------------------
\* C6: the sanitized text holds no three consecutive grave accents and no
\* whitespace at either end, and sanitizing it again leaves it unchanged.
C6_SanitizeCompleteIdempotent ==
    /\ pc \in {"fn_again", "fn_done"} =>
          /\ ~Contains(code, Fence)
          /\ code # <<>> => (code[1] \notin Whitespace /\ code[Len(code)] \notin Whitespace)
    /\ pc = "fn_done" => code2 = code

\* A response with a python fence, a fence rebuilt by removing it, and
\* blanks at its ends has been sanitized twice to the same text.
C6_Witness ==
    /\ pc = "fn_done"
    /\ response = <<" ", Backtick>> \o FencePython \o <<Backtick, Backtick, "x">>
    /\ code = <<"x">>
    /\ code2 = code

---------------------------------------------------------------------------
\* C7: exec is handed an empty globals mapping and a locals mapping whose
\* keys are exactly datasets, pd, px and go, datasets being the registry of
\* this run's data files.
C7_ExecEnvironment ==
    exec_env.called =>
        /\ exec_env.globals = {}
        /\ DOMAIN exec_env.locals = {"datasets", "pd", "px", "go"}
        /\ exec_env.locals["datasets"] = load_data_registry(data_files).value

\* exec was called in a run with two datasets and a schema loaded.
C7_Witness ==
    /\ exec_env.called
    /\ Len(exec_env.locals["datasets"]) = 2
    /\ schema_registry # <<>>
    /\ user_input # <<>>

---------------------------------------------------------------------------
\* C8: the model is called and code executed only with data files, the
\* button pressed and a question; without data files the upload notice is
\* all that is rendered; with files and the button pressed on an empty
\* question the outcome is the "Please type a request." warning, with no
\* model call, no execution, no result and no error display.
C8_Guards ==
    /\ (InSteps("model") \/ exec_env.called) =>
          (Truthy(data_files) /\ button /\ user_input # <<>>)
    /\ (Finished /\ ~Truthy(data_files)) =>
          ui = <<Element("info_upload", <<>>)>>
    /\ (Finished /\ Truthy(data_files) /\ button /\ user_input = <<>>) =>
          /\ Shown("warning_request")
          /\ ~InSteps("model")
          /\ ~exec_env.called
          /\ ResultsShown = {}
          /\ ~Shown("error")

---------------------------------------------------------------------------
UploadedList ==
    IF data_files.isNone THEN <<>> ELSE data_files.files

LastWithName(files, name) ==
    CHOOSE i \in DOMAIN files :
        /\ files[i].name = name
        /\ \A j \in DOMAIN files : files[j].name = name => j <= i

\* C9: the registry load_data_registry returns has exactly the names of the
\* uploaded files as its keys, one entry per name, each holding the content
\* of the last uploaded file of that name; it is empty for an empty or
\* absent list, and never larger than the list.
C9_RegistryKeysLastWins ==
    pc = "fn_done" =>
        /\ Keys(data_registry) = {UploadedList[i].name : i \in DOMAIN UploadedList}
        /\ \A i, j \in DOMAIN data_registry :
              data_registry[i].name = data_registry[j].name => i = j
        /\ \A i \in DOMAIN data_registry :
              data_registry[i].data =
                  UploadedList[LastWithName(UploadedList, data_registry[i].name)].content
        /\ UploadedList = <<>> => data_registry = <<>>
        /\ Len(data_registry) <= Len(UploadedList)

\* Two files of one name and different contents were loaded into one entry
\* holding the second content.
C9_Witness ==
    /\ pc = "fn_done"
    /\ Len(UploadedList) = 2
    /\ UploadedList[1].name = UploadedList[2].name
    /\ UploadedList[1].content # UploadedList[2].content
    /\ data_registry =
          <<[name |-> UploadedList[2].name, data |-> UploadedList[2].content]>>

---------------------------------------------------------------------------
IsHeader(line) ==
    line.tag = "DATASET"

LinesOf(tag, name) ==
    {p \in DOMAIN summary : summary[p].tag = tag /\ summary[p].name = name}

\* The header that opens the section a line of the summary is in.
HeaderBefore(p) ==
    CHOOSE h \in 1..p :
        /\ IsHeader(summary[h])
        /\ \A k \in (h + 1)..p : ~IsHeader(summary[k])

ExpectedSample(data, val) ==
    IF data.t = "list"
    THEN val.t = "list" /\ val.v = <<data.v[1]>>
    ELSE /\ val.t = "dict"
         /\ Len(val.v) = (IF Len(data.v) >= 2 THEN 2 ELSE Len(data.v))
         /\ Len(val.w) = Len(val.v)
         /\ \A k \in DOMAIN val.v : val.v[k] = data.v[k] /\ val.w[k] = data.w[k]

\* C10: the summary has one DATASET section per entry of the data registry,
\* in registry order, and nothing else; a section has a Schema line exactly
\* when its name is a key of the schema registry, and a Sample line exactly
\* when the data is a non-empty list (the sample holds its first element)
\* or a dict (the sample holds its first two keys, or all if fewer); the
\* summary of an empty data registry is empty.
C10_SummarySections ==
    pc = "fn_done" =>
        LET headers == SelectSeq(summary, IsHeader)
        IN  /\ Len(headers) = Len(data_registry)
            /\ \A i \in DOMAIN headers : headers[i].name = data_registry[i].name
            /\ summary # <<>> => IsHeader(summary[1])
            /\ \A p \in DOMAIN summary :
                  /\ summary[p].tag \in {"DATASET", "Schema", "Sample"}
                  /\ summary[p].name = summary[HeaderBefore(p)].name
            /\ \A i \in DOMAIN data_registry :
                  LET name == data_registry[i].name
                      data == data_registry[i].data
                      sampled == \/ data.t = "list" /\ data.v # <<>>
                                 \/ data.t = "dict"
                  IN  /\ Cardinality(LinesOf("Schema", name))
                            = (IF Has(schema_registry, name) THEN 1 ELSE 0)
                      /\ \A p \in LinesOf("Schema", name) :
                            \E j \in DOMAIN schema_registry :
                                /\ schema_registry[j].name = name
                                /\ schema_registry[j].data = summary[p].val
                      /\ Cardinality(LinesOf("Sample", name))
                            = (IF sampled THEN 1 ELSE 0)
                      /\ \A p \in LinesOf("Sample", name) :
                            ExpectedSample(data, summary[p].val)
            /\ data_registry = <<>> => summary = <<>>

\* An empty list without a schema and a three-key dict with one were
\* summarised, beside a schema that matches no dataset.
C10_Witness ==
    /\ pc = "fn_done"
    /\ Len(data_registry) = 2
    /\ data_registry[1] = [name |-> "a.json", data |-> JsonList(<<>>)]
    /\ data_registry[2].name = "b.json"
    /\ data_registry[2].data.t = "dict"
    /\ Len(data_registry[2].data.v) = 3
    /\ Keys(schema_registry) = {"b.json", "c.json"}
    /\ Len(summary) = 4

=============================================================================
